---- MODULE Spec2Model ----
(***************************************************************************)
(* A model of pngme: ChunkType (chunk_type.rs), Chunk (chunk.rs), the Png  *)
(* container (png.rs) and the commands that drive them (commands.rs).      *)
(*                                                                         *)
(* Bytes are naturals 0..255.  A u32 is a pair <<hi, lo>> of 16-bit halves *)
(* (value hi * 65536 + lo), so that every 32-bit value is representable.   *)
(* Strings are modelled by their UTF-8 bytes (str::as_bytes).              *)
(***************************************************************************)
EXTENDS Naturals, Sequences, FiniteSets

VARIABLES
    tin,      \* chunk_type: the bytes handed to a ChunkType constructor
    tres,     \* chunk_type: the constructor's result
    tvia,     \* chunk_type: which constructor produced tres
    tprops,   \* chunk_type: the property queries of the constructed ChunkType
    built,    \* chunk: the Chunk made by Chunk::new
    buf,      \* chunk: the byte buffer handed to Chunk::try_from
    origin,   \* chunk: how buf was obtained
    cres,     \* chunk: result of Chunk::try_from(buf)
    out,      \* chunk: as_bytes() of the parsed chunk
    png,      \* png: the Png value held by the caller
    file,     \* commands: the bytes of the PNG file on disk
    last      \* png/commands: the last operation and what it returned

vars == <<tin, tres, tvia, tprops, built, buf, origin, cres, out, png, file, last>>

typeVars  == <<tin, tres, tvia, tprops>>
chunkVars == <<built, buf, origin, cres, out>>
pngVars   == <<png, file, last>>

----------------------------------------------------------------------------
(* Result<T, E> *)

Ok(v)  == [ok |-> TRUE, val |-> v]
Err(e) == [ok |-> FALSE, err |-> e]
None   == [ok |-> FALSE, err |-> "None"]

----------------------------------------------------------------------------
(* Bit operations on naturals *)

RECURSIVE XorBits(_, _)
XorBits(a, b) ==
    IF a = 0 THEN b
    ELSE IF b = 0 THEN a
    ELSE ((a + b) % 2) + 2 * XorBits(a \div 2, b \div 2)

\* a ^ b on 4-bit values, tabulated
Xor4 == [a \in 0..15 |-> [b \in 0..15 |-> XorBits(a, b)]]

\* a ^ b on values of up to 16 bits, four bits at a time
BitXor(a, b) ==
    Xor4[a % 16][b % 16]
    + 16 * Xor4[(a \div 16) % 16][(b \div 16) % 16]
    + 256 * Xor4[(a \div 256) % 16][(b \div 256) % 16]
    + 4096 * Xor4[a \div 4096][b \div 4096]

RECURSIVE BitAnd(_, _)
BitAnd(a, b) ==
    IF a = 0 \/ b = 0 THEN 0
    ELSE ((a % 2) * (b % 2)) + 2 * BitAnd(a \div 2, b \div 2)

----------------------------------------------------------------------------
(* u32 as <<hi, lo>> *)

\* usize -> u32 (`as u32`): keeps the low 32 bits
AsU32(n) == <<(n \div 65536) % 65536, n % 65536>>

\* `w as usize == n` on a 64-bit usize: exact comparison, no truncation of n
U32EqUsize(w, n) == (n \div 65536 = w[1]) /\ (n % 65536 = w[2])

\* mutant: the bytes in little-endian order
ToBeBytes_LittleEndian(w) == <<w[2] % 256, w[2] \div 256, w[1] % 256, w[1] \div 256>>

\* u32::to_be_bytes
ToBeBytes(w) == <<w[1] \div 256, w[1] % 256, w[2] \div 256, w[2] % 256>>

\* u32::from_be_bytes on a 4-byte slice
FromBeBytes(b) == <<b[1] * 256 + b[2], b[3] * 256 + b[4]>>

U32Xor(x, y) == <<BitXor(x[1], y[1]), BitXor(x[2], y[2])>>

\* x >> k for 0 < k < 16
U32Shr(x, k) ==
    LET p == 2 ^ k
        q == 2 ^ (16 - k)
    IN  <<x[1] \div p, (x[1] % p) * q + (x[2] \div p)>>

----------------------------------------------------------------------------
(* CRC-32/ISO-HDLC: reflected polynomial 0xEDB88320, init and xorout       *)
(* 0xFFFFFFFF, as crc::Crc::<u32>::new(&CRC_32_ISO_HDLC) computes it.      *)

CrcPoly == <<60856, 33568>>      \* 0xEDB8 8320
CrcInit == <<65535, 65535>>      \* 0xFFFF FFFF
CrcXorOut == <<65535, 65535>>

RECURSIVE CrcTableEntry(_, _)
CrcTableEntry(c, k) ==
    IF k = 0 THEN c
    ELSE CrcTableEntry(IF c[2] % 2 = 1 THEN U32Xor(U32Shr(c, 1), CrcPoly)
                                       ELSE U32Shr(c, 1), k - 1)

CrcTable == [i \in 0..255 |-> CrcTableEntry(<<0, i>>, 8)]

\* Digest::update: one table step per byte, from byte i on
\* (the CHOOSE binds the new register to its value before the next step)
RECURSIVE CrcUpdate(_, _, _)
CrcUpdate(crc, bytes, i) ==
    IF i > Len(bytes) THEN crc
    ELSE CHOOSE r \in
           {CrcUpdate(n, bytes, i + 1) :
              n \in {U32Xor(CrcTable[BitXor(crc[2] % 256, bytes[i])], U32Shr(crc, 8))}} : TRUE

CrcFinalize(crc) == U32Xor(crc, CrcXorOut)

----------------------------------------------------------------------------
(* chunk_type.rs: ChunkType([u8; 4]) is modelled as a 4-tuple of bytes *)

PROPERTY_BIT_MASK == 32

\* mutant: the six bytes between 'Z' and 'a' are taken for letters
ByteOutOfRange_NoGap(b) == b < 65 \/ b > 122

\* the per-byte test of both constructors
ByteOutOfRange(b) == b < 65 \/ (b > 90 /\ b < 97) \/ b > 122

\* impl TryFrom<[u8; 4]> for ChunkType
ChunkTypeTryFromArray(v) ==
    IF \E i \in 1..4 : ByteOutOfRange(v[i])
    THEN Err("ByteOutOfRange")
    ELSE Ok(v)

\* impl TryFrom<&[u8]> for ChunkType
ChunkTypeTryFromSlice(v) ==
    IF Len(v) # 4 THEN Err("BadLen")
    ELSE IF \E i \in 1..Len(v) : ByteOutOfRange(v[i])
         THEN Err("ByteOutOfRange")
         ELSE Ok(<<v[1], v[2], v[3], v[4]>>)

\* impl FromStr for ChunkType: s.as_bytes().try_into()
ChunkTypeFromStr(s) == ChunkTypeTryFromSlice(s)

\* ChunkType::bytes
Bytes(ct) == <<ct[1], ct[2], ct[3], ct[4]>>

is_critical(ct)           == BitAnd(ct[1], PROPERTY_BIT_MASK) = 0
is_public(ct)             == BitAnd(ct[2], PROPERTY_BIT_MASK) = 0
is_reserved_bit_valid(ct) == BitAnd(ct[3], PROPERTY_BIT_MASK) = 0
is_safe_to_copy(ct)       == BitAnd(ct[4], PROPERTY_BIT_MASK) # 0
\* mutant: validity asks for a safe-to-copy type as well
is_valid_Strict(ct) == is_reserved_bit_valid(ct) /\ is_safe_to_copy(ct)

is_valid(ct)              == is_reserved_bit_valid(ct)

----------------------------------------------------------------------------
(* chunk.rs: Chunk {length, chunk_type, data, crc} *)

LENGTH_FIELD_BYTES == 4
CHUNK_TYPE_FIELD_BYTES == 4
CRC_FIELD_BYTES == 4
NON_DATA_FIELDS_COMBINED_BYTES ==
    LENGTH_FIELD_BYTES + CHUNK_TYPE_FIELD_BYTES + CRC_FIELD_BYTES

\* v[from .. to) with 0-based bounds, as a Rust slice
Slice(v, from, to) == SubSeq(v, from + 1, to)

\* mutant: the digest leaves the chunk type out
crc_digest_DataOnly(chunk_type_slice, data_slice) ==
    CrcFinalize(CrcUpdate(CrcInit, data_slice, 1))

\* Chunk::crc_digest
crc_digest(chunk_type_slice, data_slice) ==
    CrcFinalize(CrcUpdate(CrcUpdate(CrcInit, chunk_type_slice, 1), data_slice, 1))

\* mutant: the length counts the type field as well
ChunkNew_LengthWithType(chunk_type, data) ==
    [length     |-> AsU32(Len(data) + CHUNK_TYPE_FIELD_BYTES),
     chunk_type |-> chunk_type,
     data       |-> data,
     crc        |-> crc_digest(Bytes(chunk_type), data)]

\* Chunk::new
ChunkNew(chunk_type, data) ==
    [length     |-> AsU32(Len(data)),
     chunk_type |-> chunk_type,
     data       |-> data,
     crc        |-> crc_digest(Bytes(chunk_type), data)]

\* mutant: the crc is written before the data
ChunkAsBytes_CrcBeforeData(c) ==
    ToBeBytes(c.length) \o Bytes(c.chunk_type) \o ToBeBytes(c.crc) \o c.data

\* Chunk::as_bytes
ChunkAsBytes(c) ==
    ToBeBytes(c.length) \o Bytes(c.chunk_type) \o c.data \o ToBeBytes(c.crc)

\* map_err(|e| ChunkError::ChunkType(e))
WrapChunkType(e) ==
    IF e = "ByteOutOfRange" THEN "ChunkType(ByteOutOfRange)" ELSE "ChunkType(BadLen)"

\* mutant: the crc is compared before the chunk type is validated
ChunkTryFrom_CrcFirst(v) ==
    IF Len(v) < NON_DATA_FIELDS_COMBINED_BYTES THEN Err("BadLen")
    ELSE
    LET length == FromBeBytes(Slice(v, 0, LENGTH_FIELD_BYTES)) IN
    IF ~U32EqUsize(length, Len(v) - NON_DATA_FIELDS_COMBINED_BYTES) THEN Err("BadDataLen")
    ELSE
    LET chunk_type_slice ==
            Slice(v, LENGTH_FIELD_BYTES, LENGTH_FIELD_BYTES + CHUNK_TYPE_FIELD_BYTES)
        data_slice ==
            Slice(v, LENGTH_FIELD_BYTES + CHUNK_TYPE_FIELD_BYTES, Len(v) - CRC_FIELD_BYTES)
        crc_slice == Slice(v, Len(v) - CRC_FIELD_BYTES, Len(v))
        crc_calculated == crc_digest(chunk_type_slice, data_slice)
        crc == FromBeBytes(crc_slice)
        chunk_type == ChunkTypeTryFromSlice(chunk_type_slice)
    IN
    IF crc # crc_calculated THEN Err("BadCrc")
    ELSE IF ~chunk_type.ok THEN Err(WrapChunkType(chunk_type.err))
    ELSE Ok([length     |-> length,
             chunk_type |-> chunk_type.val,
             data       |-> data_slice,
             crc        |-> crc])

\* mutant: the crc field is read and never compared
ChunkTryFrom_NoCrcCheck(v) ==
    IF Len(v) < NON_DATA_FIELDS_COMBINED_BYTES THEN Err("BadLen")
    ELSE
    LET length == FromBeBytes(Slice(v, 0, LENGTH_FIELD_BYTES)) IN
    IF ~U32EqUsize(length, Len(v) - NON_DATA_FIELDS_COMBINED_BYTES) THEN Err("BadDataLen")
    ELSE
    LET chunk_type_slice ==
            Slice(v, LENGTH_FIELD_BYTES, LENGTH_FIELD_BYTES + CHUNK_TYPE_FIELD_BYTES)
        data_slice ==
            Slice(v, LENGTH_FIELD_BYTES + CHUNK_TYPE_FIELD_BYTES, Len(v) - CRC_FIELD_BYTES)
        crc_slice == Slice(v, Len(v) - CRC_FIELD_BYTES, Len(v))
        chunk_type == ChunkTypeTryFromSlice(chunk_type_slice)
    IN
    IF ~chunk_type.ok THEN Err(WrapChunkType(chunk_type.err))
    ELSE Ok([length     |-> length,
             chunk_type |-> chunk_type.val,
             data       |-> data_slice,
             crc        |-> FromBeBytes(crc_slice)])

\* impl TryFrom<&[u8]> for Chunk
ChunkTryFrom(v) ==
    IF Len(v) < NON_DATA_FIELDS_COMBINED_BYTES THEN Err("BadLen")
    ELSE
    LET length == FromBeBytes(Slice(v, 0, LENGTH_FIELD_BYTES)) IN
    IF ~U32EqUsize(length, Len(v) - NON_DATA_FIELDS_COMBINED_BYTES) THEN Err("BadDataLen")
    ELSE
    LET chunk_type_slice ==
            Slice(v, LENGTH_FIELD_BYTES, LENGTH_FIELD_BYTES + CHUNK_TYPE_FIELD_BYTES)
        data_slice ==
            Slice(v, LENGTH_FIELD_BYTES + CHUNK_TYPE_FIELD_BYTES, Len(v) - CRC_FIELD_BYTES)
        crc_slice == Slice(v, Len(v) - CRC_FIELD_BYTES, Len(v))
        chunk_type == ChunkTypeTryFromSlice(chunk_type_slice)
    IN
    IF ~chunk_type.ok THEN Err(WrapChunkType(chunk_type.err))
    ELSE
    LET crc_calculated == crc_digest(chunk_type_slice, data_slice)
        crc == FromBeBytes(crc_slice)
    IN
    IF crc # crc_calculated THEN Err("BadCrc")
    ELSE Ok([length     |-> length,
             chunk_type |-> chunk_type.val,
             data       |-> data_slice,
             crc        |-> crc])

----------------------------------------------------------------------------
(* png.rs: Png { chunks: Vec<Chunk> } behind the fixed signature.  The     *)
(* file is not among the sources; these definitions follow section 4.3 of  *)
(* the specification.  A Png is modelled as its sequence of chunks.        *)

SIGNATURE == <<137, 80, 78, 71, 13, 10, 26, 10>>

\* w > n for a u32 w and a usize n
U32GtUsize(w, n) ==
    \/ w[1] > n \div 65536
    \/ (w[1] = n \div 65536 /\ w[2] > n % 65536)

\* the number of bytes the chunk record at the cursor spans: 12 plus its
\* declared data length, or all that remains when the buffer ends before that
ChunkSpan(bytes, cursor) ==
    LET remaining == Len(bytes) - cursor IN
    IF remaining < NON_DATA_FIELDS_COMBINED_BYTES THEN remaining
    ELSE LET length == FromBeBytes(Slice(bytes, cursor, cursor + LENGTH_FIELD_BYTES)) IN
         IF U32GtUsize(length, remaining - NON_DATA_FIELDS_COMBINED_BYTES)
         THEN remaining
         ELSE NON_DATA_FIELDS_COMBINED_BYTES + length[1] * 65536 + length[2]

\* the chunk loop of Png parse: any chunk error aborts the whole parse
RECURSIVE PngParseChunks(_, _, _)
PngParseChunks(bytes, cursor, chunks) ==
    IF cursor >= Len(bytes) THEN Ok(chunks)
    ELSE LET span == ChunkSpan(bytes, cursor)
             chunk == ChunkTryFrom(Slice(bytes, cursor, cursor + span))
         IN  IF ~chunk.ok THEN Err(chunk.err)
             ELSE PngParseChunks(bytes, cursor + span, Append(chunks, chunk.val))

\* Png parse (TryFrom<&[u8]> for Png)
PngTryFrom(bytes) ==
    IF Len(bytes) < Len(SIGNATURE) \/ Slice(bytes, 0, Len(SIGNATURE)) # SIGNATURE
    THEN Err("SignatureMismatch")
    ELSE PngParseChunks(bytes, Len(SIGNATURE), <<>>)

\* Png::append_chunk
PngAppendChunk(chunks, chunk) == Append(chunks, chunk)

\* mutant: the last chunk of the type is removed instead of the first
PngRemoveChunk_Last(chunks, type_str) ==
    LET ct == ChunkTypeFromStr(type_str) IN
    IF ~ct.ok THEN [png |-> chunks, res |-> Err(ct.err)]
    ELSE LET hits == {i \in 1..Len(chunks) : chunks[i].chunk_type = ct.val} IN
         IF hits = {} THEN [png |-> chunks, res |-> Err("ChunkNotFound")]
         ELSE LET k == CHOOSE i \in hits : \A j \in hits : i >= j
              IN  [png |-> SubSeq(chunks, 1, k - 1) \o SubSeq(chunks, k + 1, Len(chunks)),
                   res |-> Ok(chunks[k])]

\* Png::remove_chunk: the new chunk sequence and the value returned
PngRemoveChunk(chunks, type_str) ==
    LET ct == ChunkTypeFromStr(type_str) IN
    IF ~ct.ok THEN [png |-> chunks, res |-> Err(ct.err)]
    ELSE LET hits == {i \in 1..Len(chunks) : chunks[i].chunk_type = ct.val} IN
         IF hits = {} THEN [png |-> chunks, res |-> Err("ChunkNotFound")]
         ELSE LET k == CHOOSE i \in hits : \A j \in hits : i <= j
              IN  [png |-> SubSeq(chunks, 1, k - 1) \o SubSeq(chunks, k + 1, Len(chunks)),
                   res |-> Ok(chunks[k])]

\* Png::chunk_by_type: the first match; an unparseable type matches nothing
PngChunkByType(chunks, type_str) ==
    LET ct == ChunkTypeFromStr(type_str)
        hits == IF ct.ok THEN {i \in 1..Len(chunks) : chunks[i].chunk_type = ct.val}
                ELSE {}
    IN  IF hits = {} THEN None
        ELSE Ok(chunks[CHOOSE i \in hits : \A j \in hits : i <= j])

\* Png::as_bytes
RECURSIVE PngChunkBytes(_, _)
PngChunkBytes(chunks, i) ==
    IF i > Len(chunks) THEN <<>>
    ELSE ChunkAsBytes(chunks[i]) \o PngChunkBytes(chunks, i + 1)

PngAsBytes(chunks) == SIGNATURE \o PngChunkBytes(chunks, 1)

----------------------------------------------------------------------------
(* Idle values of the components a specification does not exercise *)

TypeIdle  == tin = <<>> /\ tres = None /\ tvia = "none" /\ tprops = None
ChunkIdle ==
    built = None /\ buf = <<>> /\ origin = [kind |-> "none"] /\ cres = None /\ out = None
PngIdle   == png = <<>> /\ file = <<>> /\ last = [op |-> "none"]

----------------------------------------------------------------------------
(* SpecType: the ChunkType constructors and property queries on byte       *)
(* sequences built from the edges of the two letter ranges, and on the     *)
(* type strings of the tests of chunk_type.rs.                             *)

MaxTypeLen == 5

\* 64 A Z 91 96 a z 123
EdgeBytes == {64, 65, 90, 91, 96, 97, 122, 123}

RuSt == <<82, 117, 83, 116>>
Rust == <<82, 117, 115, 116>>
ruSt == <<114, 117, 83, 116>>
RUSt == <<82, 85, 83, 116>>
RuST == <<82, 117, 83, 84>>
Ru1t == <<82, 117, 49, 116>>
TestTypes == {RuSt, Rust, ruSt, RUSt, RuST, Ru1t}

InitType ==
    /\ tin \in {<<>>} \cup TestTypes
    /\ tres = None /\ tvia = "none" /\ tprops = None
    /\ ChunkIdle /\ PngIdle

\* the caller extends the input by one byte
PushByte(b) ==
    /\ Len(tin) < MaxTypeLen
    /\ tin' = Append(tin, b)
    /\ tres' = None /\ tvia' = "none" /\ tprops' = None
    /\ UNCHANGED <<chunkVars, pngVars>>

\* ChunkType::try_from([u8; 4])
TryFromArray ==
    /\ Len(tin) = 4
    /\ tres' = ChunkTypeTryFromArray(tin)
    /\ tvia' = "array"
    /\ tprops' = None
    /\ UNCHANGED <<tin, chunkVars, pngVars>>

\* ChunkType::try_from(&[u8])
TryFromSlice ==
    /\ tres' = ChunkTypeTryFromSlice(tin)
    /\ tvia' = "slice"
    /\ tprops' = None
    /\ UNCHANGED <<tin, chunkVars, pngVars>>

\* the five property queries on the constructed ChunkType
Query ==
    /\ tres.ok
    /\ tprops' = [ok                |-> TRUE,
                  critical          |-> is_critical(tres.val),
                  public            |-> is_public(tres.val),
                  reserved_bit_valid |-> is_reserved_bit_valid(tres.val),
                  safe_to_copy      |-> is_safe_to_copy(tres.val),
                  valid             |-> is_valid(tres.val)]
    /\ UNCHANGED <<tin, tres, tvia, chunkVars, pngVars>>

NextType ==
    \/ \E b \in EdgeBytes : PushByte(b)
    \/ TryFromArray
    \/ TryFromSlice
    \/ Query

SpecType == InitType /\ [][NextType]_vars

IsAsciiLetter(b) == b \in 65..90 \/ b \in 97..122

\* C4: the 4-byte constructor succeeds iff all 4 bytes are ASCII letters and
\* then holds exactly those bytes, and fails with ByteOutOfRange otherwise;
\* the slice constructor fails with BadLen when the length is not 4 (whatever
\* the bytes are) and otherwise agrees with the 4-byte constructor.
C4_Construction ==
    /\ tvia = "array" =>
         /\ tres.ok <=> \A i \in 1..4 : IsAsciiLetter(tin[i])
         /\ tres.ok => Bytes(tres.val) = tin
         /\ ~tres.ok => tres.err = "ByteOutOfRange"
    /\ tvia = "slice" =>
         /\ Len(tin) # 4 => tres = Err("BadLen")
         /\ Len(tin) = 4 =>
              /\ tres.ok <=> \A i \in 1..4 : IsAsciiLetter(tin[i])
              /\ tres.ok => Bytes(tres.val) = tin
              /\ ~tres.ok => tres.err = "ByteOutOfRange"

\* a 4-byte slice with exactly one byte that is not a letter was rejected
C4_Witness ==
    /\ tvia = "slice"
    /\ Len(tin) = 4
    /\ Cardinality({i \in 1..4 : ~IsAsciiLetter(tin[i])}) = 1
    /\ ~tres.ok

Bit5(b) == (b \div 32) % 2

\* C10: critical iff bit 5 of byte 0 is 0, public iff bit 5 of byte 1 is 0,
\* reserved-bit-valid iff bit 5 of byte 2 is 0, safe-to-copy iff bit 5 of
\* byte 3 is 1, and is_valid is reserved-bit-valid alone; "RuSt" is valid,
\* "Rust" is constructible and not valid.
C10_PropertyBits ==
    tprops.ok =>
        /\ tprops.critical <=> Bit5(tin[1]) = 0
        /\ tprops.public <=> Bit5(tin[2]) = 0
        /\ tprops.reserved_bit_valid <=> Bit5(tin[3]) = 0
        /\ tprops.safe_to_copy <=> Bit5(tin[4]) = 1
        /\ tprops.valid <=> Bit5(tin[3]) = 0
        /\ tin = RuSt => tprops.valid
        /\ tin = Rust => ~tprops.valid

\* "Rust" was constructed and queried: not valid although critical and safe to copy
C10_Witness ==
    /\ tprops.ok
    /\ tin = Rust
    /\ ~tprops.valid /\ tprops.critical /\ tprops.safe_to_copy /\ ~tprops.public

----------------------------------------------------------------------------
(* SpecChunk: Chunk::new, as_bytes and try_from on chunks of a few types   *)
(* and short data, on their serializations with one bit flipped or the     *)
(* tail cut off, and on raw buffers assembled from arbitrary fields.       *)

MaxData == 2

DataBytes == {0, 104, 255}

IEND == <<73, 69, 78, 68>>
AzZa == <<65, 122, 90, 97>>
ChunkTypes == {RuSt, IEND, AzZa}

\* type fields of raw buffers: the valid ones and two with a non-letter
RawTypes == ChunkTypes \cup {Ru1t, <<82, 117, 83, 123>>}

DataOfLen(n) == [1..n -> DataBytes]
Datas == UNION {DataOfLen(n) : n \in 0..MaxData}

InitChunk == TypeIdle /\ ChunkIdle /\ PngIdle

\* nothing has been built or received yet
Fresh == ~built.ok /\ origin.kind = "none"

\* Chunk::new(chunk_type, data)
New(ct, data) ==
    /\ Fresh
    /\ built' = Ok(ChunkNew(ct, data))
    /\ buf' = <<>>
    /\ origin' = [kind |-> "none"]
    /\ cres' = None
    /\ out' = None
    /\ UNCHANGED <<typeVars, pngVars>>

\* built.as_bytes()
Serialize ==
    /\ built.ok
    /\ buf' = ChunkAsBytes(built.val)
    /\ origin' = [kind |-> "as_bytes"]
    /\ cres' = None
    /\ out' = None
    /\ UNCHANGED <<built, typeVars, pngVars>>

\* one bit of the serialized chunk is flipped (pos is a 0-based byte index)
FlipBit(pos, bit) ==
    /\ origin.kind = "as_bytes"
    /\ pos < Len(buf)
    /\ buf' = [buf EXCEPT ![pos + 1] = BitXor(@, 2 ^ bit)]
    /\ origin' = [kind |-> "flipped", pos |-> pos, bit |-> bit]
    /\ cres' = None
    /\ out' = None
    /\ UNCHANGED <<built, typeVars, pngVars>>

\* a buffer from elsewhere: any length field, type field, data and crc field
Receive(lenField, t, d, crcField) ==
    /\ Fresh
    /\ built' = None
    /\ buf' = ToBeBytes(lenField) \o t \o d \o ToBeBytes(crcField)
    /\ origin' = [kind |-> "received"]
    /\ cres' = None
    /\ out' = None
    /\ UNCHANGED <<typeVars, pngVars>>

\* the last byte of the buffer is lost
Truncate ==
    /\ origin.kind \in {"as_bytes", "received", "truncated"}
    /\ Len(buf) > 0
    /\ buf' = SubSeq(buf, 1, Len(buf) - 1)
    /\ origin' = [kind |-> "truncated"]
    /\ cres' = None
    /\ out' = None
    /\ UNCHANGED <<built, typeVars, pngVars>>

\* Chunk::try_from(buf)
Parse ==
    /\ cres' = Ok(ChunkTryFrom(buf))
    /\ out' = None
    /\ UNCHANGED <<built, buf, origin, typeVars, pngVars>>

\* as_bytes() of the chunk that try_from returned
Reserialize ==
    /\ cres.ok
    /\ cres.val.ok
    /\ out' = Ok(ChunkAsBytes(cres.val.val))
    /\ UNCHANGED <<built, buf, origin, cres, typeVars, pngVars>>

LenFields == {AsU32(n) : n \in 0..(MaxData + 1)} \cup {<<65535, 65535>>, <<1, 0>>, <<1, 1>>}

CrcFields(t, d) == {crc_digest(t, d), U32Xor(crc_digest(t, d), <<0, 1>>), <<0, 0>>}

NextChunk ==
    \/ \E ct \in ChunkTypes, data \in Datas : New(ct, data)
    \/ Serialize
    \/ \E pos \in 0..(NON_DATA_FIELDS_COMBINED_BYTES + MaxData - 1), bit \in 0..7 :
          FlipBit(pos, bit)
    \/ \E lenField \in LenFields, t \in RawTypes, d \in Datas :
          \E crcField \in CrcFields(t, d) : Receive(lenField, t, d, crcField)
    \/ Truncate
    \/ Parse
    \/ Reserialize

SpecChunk == InitChunk /\ [][NextChunk]_vars

----------------------------------------------------------------------------
(* CRC-32 (ISO-HDLC) bit by bit, the definition the claims refer to *)

\* one bit: shift right, and subtract the polynomial when a 1 fell out
Crc32Bit(c) ==
    IF c[2] % 2 = 1
    THEN <<BitXor(c[1] \div 2, 60856), BitXor((c[1] % 2) * 32768 + (c[2] \div 2), 33568)>>
    ELSE <<c[1] \div 2, (c[1] % 2) * 32768 + (c[2] \div 2)>>

\* (each CHOOSE binds the new register to its value before the next step)
RECURSIVE Crc32Bits(_, _)
Crc32Bits(c, k) ==
    IF k = 0 THEN c
    ELSE CHOOSE r \in {Crc32Bits(n, k - 1) : n \in {Crc32Bit(c)}} : TRUE

RECURSIVE Crc32Bytes(_, _, _)
Crc32Bytes(c, bytes, i) ==
    IF i > Len(bytes) THEN c
    ELSE CHOOSE r \in {Crc32Bytes(n, bytes, i + 1) :
                          n \in {Crc32Bits(<<c[1], BitXor(c[2], bytes[i])>>, 8)}} : TRUE

Crc32(bytes) ==
    LET c == Crc32Bytes(<<65535, 65535>>, bytes, 1)
    IN  <<65535 - c[1], 65535 - c[2]>>

\* the 4 bytes b hold the big-endian u32 of value m
BigEndianIs(b, m) ==
    /\ b[1] = m \div 16777216
    /\ b[2] = (m \div 65536) % 256
    /\ b[3] = (m \div 256) % 256
    /\ b[4] = m % 256

\* the 4 bytes b hold the big-endian form of the u32 w
BigEndianOf(b, w) ==
    /\ b[1] = w[1] \div 256 /\ b[2] = w[1] % 256
    /\ b[3] = w[2] \div 256 /\ b[4] = w[2] % 256

Parsed == cres.ok

\* C1: parsing the as_bytes() of a chunk built by Chunk::new succeeds and
\* gives a chunk equal to it; and whenever parsing a buffer succeeds, the
\* as_bytes() of the parsed chunk is that buffer, byte for byte.
C1_RoundTrip ==
    /\ (origin.kind = "as_bytes" /\ Parsed) => cres.val = Ok(built.val)
    /\ out.ok => out.val = buf

\* the serialization of a built chunk with data was parsed and serialized again
C1_Witness ==
    /\ origin.kind = "as_bytes"
    /\ Len(built.val.data) > 0
    /\ Parsed /\ cres.val.ok
    /\ out.ok

\* a raw buffer that no Chunk::new produced was parsed and serialized again
C1_WitnessRaw ==
    /\ origin.kind = "received"
    /\ Len(buf) > NON_DATA_FIELDS_COMBINED_BYTES
    /\ out.ok

\* C2: try_from reports the first failing check of: BadLen (fewer than 12
\* bytes), BadDataLen (length field differs from len - 12), ChunkType(
\* ByteOutOfRange) (a type byte is not a letter), BadCrc (crc field differs
\* from the CRC-32 of type and data); it succeeds, with data = b[8 .. len-4],
\* exactly when none of the four fails.
C2_CheckOrder ==
    Parsed =>
        LET n == Len(buf)
            r == cres.val
            lenOk == n >= 12
            dataLenOk == BigEndianIs(SubSeq(buf, 1, 4), n - 12)
            typeOk == \A i \in 5..8 : IsAsciiLetter(buf[i])
            crcOk == BigEndianOf(SubSeq(buf, n - 3, n), Crc32(SubSeq(buf, 5, n - 4)))
        IN  /\ ~lenOk => r = Err("BadLen")
            /\ (lenOk /\ ~dataLenOk) => r = Err("BadDataLen")
            /\ (lenOk /\ dataLenOk /\ ~typeOk) => r = Err("ChunkType(ByteOutOfRange)")
            /\ (lenOk /\ dataLenOk /\ typeOk /\ ~crcOk) => r = Err("BadCrc")
            /\ (lenOk /\ dataLenOk /\ typeOk /\ crcOk) =>
                   (r.ok /\ r.val.data = SubSeq(buf, 9, n - 4))
            /\ r.ok => (lenOk /\ dataLenOk /\ typeOk /\ crcOk)

\* a buffer with a right length field, a type field holding a non-letter and
\* a wrong crc field was parsed: the type error is the one reported
C2_Witness ==
    /\ Parsed
    /\ origin.kind = "received"
    /\ Len(buf) > 12
    /\ BigEndianIs(SubSeq(buf, 1, 4), Len(buf) - 12)
    /\ \E i \in 5..8 : ~IsAsciiLetter(buf[i])
    /\ SubSeq(buf, Len(buf) - 3, Len(buf)) = <<0, 0, 0, 0>>
    /\ cres.val = Err("ChunkType(ByteOutOfRange)")

InTypeRegion(pos) == pos >= 4 /\ pos < 8
InDataRegion(pos) == pos >= 8 /\ pos < Len(buf) - 4

\* C5 as stated: a single bit flipped in the type or data region of a
\* serialized chunk makes the parse fail with BadCrc.
C5_TamperOriginal ==
    (Parsed /\ origin.kind = "flipped"
            /\ (InTypeRegion(origin.pos) \/ InDataRegion(origin.pos)))
        => cres.val = Err("BadCrc")

\* C5 amended: a single bit flipped in the data region gives BadCrc; a single
\* bit flipped in the type region gives BadCrc when the changed byte is still
\* an ASCII letter and ChunkType(ByteOutOfRange) when it is not.
C5_Tamper ==
    (Parsed /\ origin.kind = "flipped") =>
        /\ InDataRegion(origin.pos) => cres.val = Err("BadCrc")
        /\ (InTypeRegion(origin.pos) /\ IsAsciiLetter(buf[origin.pos + 1]))
               => cres.val = Err("BadCrc")
        /\ (InTypeRegion(origin.pos) /\ ~IsAsciiLetter(buf[origin.pos + 1]))
               => cres.val = Err("ChunkType(ByteOutOfRange)")

\* a type byte was flipped to another letter and the parse reported BadCrc
C5_Witness ==
    /\ Parsed /\ origin.kind = "flipped"
    /\ InTypeRegion(origin.pos)
    /\ IsAsciiLetter(buf[origin.pos + 1])
    /\ cres.val = Err("BadCrc")

----------------------------------------------------------------------------
(* SpecPng: a Png under append_chunk and remove_chunk, its serialization,  *)
(* and Png parse on that serialization as written, with its tail cut off   *)
(* or with one bit flipped.                                                *)

MaxChunks == 3

PngTypes == {IEND, ruSt}
PngDatas == {<<>>, <<104>>}

\* type strings given to remove_chunk: two types, a string with a digit and
\* a string of two characters
TypeStrs == {IEND, ruSt, Ru1t, <<82, 117>>}

\* the caller holds a Png to work on: not in the middle of handling a buffer
\* and not after a failed parse, which leaves the Png as it was
Holding ==
    \/ last.op \in {"new", "append_chunk", "remove_chunk", "as_bytes"}
    \/ (last.op = "try_from" /\ last.res.ok)

InitPng ==
    /\ TypeIdle /\ ChunkIdle
    /\ png = <<>>
    /\ file = <<>>
    /\ last = [op |-> "new"]

\* png.append_chunk(Chunk::new(ct, data)); a buffer serialized earlier is dropped
AppendChunk(ct, data) ==
    /\ Holding
    /\ Len(png) < MaxChunks
    /\ png' = PngAppendChunk(png, ChunkNew(ct, data))
    /\ last' = [op |-> "append_chunk", before |-> png]
    /\ file' = <<>>
    /\ UNCHANGED <<typeVars, chunkVars>>

\* png.remove_chunk(type_str); a buffer serialized earlier is dropped
RemoveChunk(type_str) ==
    LET r == PngRemoveChunk(png, type_str) IN
    /\ Holding
    /\ png' = r.png
    /\ last' = [op |-> "remove_chunk", arg |-> type_str, res |-> r.res, before |-> png]
    /\ file' = <<>>
    /\ UNCHANGED <<typeVars, chunkVars>>

\* file := png.as_bytes()
AsBytes ==
    /\ Holding
    /\ file' = PngAsBytes(png)
    /\ last' = [op |-> "as_bytes"]
    /\ UNCHANGED <<png, typeVars, chunkVars>>

\* the last byte of the file is lost
CutFile ==
    /\ last.op \in {"as_bytes", "cut"}
    /\ Len(file) > 0
    /\ file' = SubSeq(file, 1, Len(file) - 1)
    /\ last' = [op |-> "cut"]
    /\ UNCHANGED <<png, typeVars, chunkVars>>

\* the lowest bit of one byte of the file is flipped (pos is 0-based)
FlipFileBit(pos) ==
    /\ last.op = "as_bytes"
    /\ pos < Len(file)
    /\ file' = [file EXCEPT ![pos + 1] = BitXor(@, 1)]
    /\ last' = [op |-> "flip", pos |-> pos]
    /\ UNCHANGED <<png, typeVars, chunkVars>>

\* Png parse of the file; the caller keeps the parsed Png when there is one
TryFrom ==
    LET r == PngTryFrom(file) IN
    /\ last.op \in {"as_bytes", "cut", "flip"}
    /\ last' = [op |-> "try_from", src |-> last.op, res |-> r, before |-> png]
    /\ png' = IF r.ok THEN r.val ELSE png
    /\ UNCHANGED <<file, typeVars, chunkVars>>

MaxFileLen == Len(SIGNATURE) + MaxChunks * (NON_DATA_FIELDS_COMBINED_BYTES + 1)

NextPng ==
    \/ \E ct \in PngTypes, data \in PngDatas : AppendChunk(ct, data)
    \/ \E type_str \in TypeStrs : RemoveChunk(type_str)
    \/ AsBytes
    \/ CutFile
    \/ \E pos \in 0..(MaxFileLen - 1) : FlipFileBit(pos)
    \/ TryFrom

SpecPng == InitPng /\ [][NextPng]_vars

\* the offset in png.as_bytes() of the record of the i-th chunk (1-based i)
RECURSIVE RecordOffset(_, _)
RecordOffset(chunks, i) ==
    IF i = 1 THEN 8
    ELSE RecordOffset(chunks, i - 1) + 12 + Len(chunks[i - 1].data)

\* bytes is the signature followed by the records of the chunks, in order
IsLayoutOf(bytes, chunks) ==
    /\ Len(bytes) = RecordOffset(chunks, Len(chunks) + 1)
    /\ SubSeq(bytes, 1, 8) = <<137, 80, 78, 71, 13, 10, 26, 10>>
    /\ \A i \in 1..Len(chunks) :
          LET o == RecordOffset(chunks, i)
              n == Len(chunks[i].data)
          IN  /\ BigEndianOf(SubSeq(bytes, o + 1, o + 4), chunks[i].length)
              /\ SubSeq(bytes, o + 5, o + 8) = Bytes(chunks[i].chunk_type)
              /\ SubSeq(bytes, o + 9, o + 8 + n) = chunks[i].data
              /\ BigEndianOf(SubSeq(bytes, o + 9 + n, o + 12 + n), chunks[i].crc)

\* what every chunk satisfies: its crc is the CRC-32 of type and data, its
\* length is the number of bytes of its data
ChunkInv(c) ==
    /\ c.crc = Crc32(Bytes(c.chunk_type) \o c.data)
    /\ c.length[1] = Len(c.data) \div 65536
    /\ c.length[2] = Len(c.data) % 65536

RECURSIVE IsSubsequence(_, _)
IsSubsequence(s, t) ==
    IF s = <<>> THEN TRUE
    ELSE IF t = <<>> THEN FALSE
    ELSE IF Head(s) = Head(t) THEN IsSubsequence(Tail(s), Tail(t))
    ELSE IsSubsequence(s, Tail(t))

\* C3: every chunk held by a Png or returned by remove_chunk, whether made
\* by Chunk::new or by a parse, has crc = CRC-32(type ++ data) and length =
\* number of data bytes; append_chunk and remove_chunk leave the chunks that
\* stay exactly as they were.
C3_ChunkInvariant ==
    /\ \A i \in 1..Len(png) : ChunkInv(png[i])
    /\ (last.op = "remove_chunk" /\ last.res.ok) => ChunkInv(last.res.val)
    /\ last.op = "append_chunk" => SubSeq(png, 1, Len(png) - 1) = last.before
    /\ last.op = "remove_chunk" => IsSubsequence(png, last.before)

\* a Png of two chunks, the first with data, came out of a parse
C3_Witness ==
    /\ last.op = "try_from" /\ last.res.ok
    /\ Len(png) = 2
    /\ png[1].data # <<>>

\* C6: parsing the serialization of a Png reached by append_chunk and
\* remove_chunk calls succeeds and gives the same chunk sequence in the same
\* order; the serialization is SIGNATURE followed by the chunks' records in
\* sequence order.
C6_PngRoundTrip ==
    /\ (last.op = "try_from" /\ last.src = "as_bytes") =>
           (last.res = Ok(last.before) /\ png = last.before)
    /\ last.op = "as_bytes" => IsLayoutOf(file, png)

\* a Png holding two chunks of one type with different data was serialized
\* and parsed back
C6_Witness ==
    /\ last.op = "try_from" /\ last.src = "as_bytes"
    /\ last.res.ok
    /\ Len(png) >= 2
    /\ png[1].chunk_type = png[2].chunk_type
    /\ png[1].data # png[2].data

IsTypeStr(s) == Len(s) = 4 /\ \A i \in 1..4 : IsAsciiLetter(s[i])

\* C7: remove_chunk with a chunk type string removes and returns exactly the
\* first chunk of that type: the sequence afterwards is the one before with
\* that one element deleted; when no chunk has that type it fails with
\* ChunkNotFound and removes nothing.  (A string that is no chunk type gives
\* the ChunkType error and removes nothing.)
C7_RemoveFirst ==
    last.op = "remove_chunk" =>
        LET b == last.before
            hits == {i \in 1..Len(b) : Bytes(b[i].chunk_type) = last.arg}
        IN  /\ hits # {} =>
                 \E k \in hits :
                    /\ \A j \in hits : k <= j
                    /\ last.res = Ok(b[k])
                    /\ Len(png) = Len(b) - 1
                    /\ \A i \in 1..(k - 1) : png[i] = b[i]
                    /\ \A i \in k..Len(png) : png[i] = b[i + 1]
            /\ (hits = {} /\ IsTypeStr(last.arg)) =>
                 (last.res = Err("ChunkNotFound") /\ png = b)
            /\ ~IsTypeStr(last.arg) =>
                 (~last.res.ok /\ last.res.err \in {"BadLen", "ByteOutOfRange"} /\ png = b)

\* the first of two chunks of one type was removed from the middle of three
\* chunks and the second one stayed
C7_Witness ==
    /\ last.op = "remove_chunk" /\ last.res.ok
    /\ Len(last.before) = 3
    /\ last.before[1].chunk_type # last.arg
    /\ last.before[2].chunk_type = last.arg
    /\ last.before[3].chunk_type = last.arg
    /\ last.before[2] # last.before[3]
    /\ png = <<last.before[1], last.before[3]>>

\* b is a chunk record that passes the four checks of chunk parsing
RecordOk(b) ==
    /\ Len(b) >= 12
    /\ BigEndianIs(SubSeq(b, 1, 4), Len(b) - 12)
    /\ \A i \in 5..8 : IsAsciiLetter(b[i])
    /\ BigEndianOf(SubSeq(b, Len(b) - 3, Len(b)), Crc32(SubSeq(b, 5, Len(b) - 4)))

\* rest is zero or more such records back to back
RECURSIVE IsRecords(_)
IsRecords(rest) ==
    \/ rest = <<>>
    \/ \E n \in 12..Len(rest) :
          /\ RecordOk(SubSeq(rest, 1, n))
          /\ IsRecords(SubSeq(rest, n + 1, Len(rest)))

\* C8: Png parse returns a Png exactly when the buffer is SIGNATURE followed
\* by zero or more back-to-back chunk records that chunk parsing accepts,
\* and the Png is those chunks; a buffer shorter than 8 bytes or not
\* starting with SIGNATURE fails with SignatureMismatch; otherwise a failing
\* chunk fails the whole parse with a chunk error (BadLen or BadDataLen when
\* the buffer ends inside a chunk) and no Png is returned.
C8_AllOrNothing ==
    last.op = "try_from" =>
        LET r == last.res IN
        IF ~(Len(file) >= 8 /\ SubSeq(file, 1, 8) = <<137, 80, 78, 71, 13, 10, 26, 10>>)
        THEN r = Err("SignatureMismatch") /\ png = last.before
        ELSE IF IsRecords(SubSeq(file, 9, Len(file)))
        THEN r.ok /\ IsLayoutOf(file, r.val) /\ png = r.val
        ELSE /\ ~r.ok
             /\ r = Err(r.err)
             /\ png = last.before
             /\ r.err \in {"BadLen", "BadDataLen", "ChunkType(ByteOutOfRange)", "BadCrc"}
             /\ last.src = "cut" => r.err \in {"BadLen", "BadDataLen"}

\* a file whose second chunk has a flipped bit was parsed: the parse failed
\* although the first chunk is intact
C8_Witness ==
    /\ last.op = "try_from" /\ last.src = "flip"
    /\ Len(last.before) = 2
    /\ RecordOk(SubSeq(file, 9, 8 + 12 + Len(last.before[1].data)))
    /\ ~last.res.ok
    /\ last.res.err = "BadCrc"

----------------------------------------------------------------------------
(* SpecCmd: the encode and remove commands of commands.rs run on a PNG     *)
(* file.  file is the input file; a command given an output path that      *)
(* names another file leaves it alone and writes the other file, whose     *)
(* bytes last.res.val.written records.                                     *)

MaxFileChunks == 5

IendChunk == ChunkNew(IEND, <<>>)
TextChunk == ChunkNew(ruSt, <<104>>)

\* chunks that no encode of this specification adds: the two critical chunks
\* a real PNG has ahead of IEND, and an IEND chunk that carries data
IHDR == <<73, 72, 68, 82>>
IDAT == <<73, 68, 65, 84>>
HeaderChunk  == ChunkNew(IHDR, <<0>>)
ImageChunk   == ChunkNew(IDAT, <<255>>)
IendWithData == ChunkNew(IEND, <<0>>)

\* the files the commands start from: well-formed PNGs with the IEND chunk
\* last, first, in the middle, twice (alike or different) or missing, an
\* empty file, and a PNG with a damaged crc
InitFiles ==
    {PngAsBytes(<<IendChunk>>),
     PngAsBytes(<<TextChunk, IendChunk>>),
     PngAsBytes(<<IendChunk, TextChunk>>),
     PngAsBytes(<<IendChunk, TextChunk, IendChunk>>),
     PngAsBytes(<<HeaderChunk, ImageChunk, IendChunk>>),
     PngAsBytes(<<IendChunk, HeaderChunk, IendWithData>>),
     PngAsBytes(<<HeaderChunk, IendChunk, ImageChunk, IendWithData>>),
     PngAsBytes(<<TextChunk>>),
     SIGNATURE,
     <<>>,
     SubSeq(PngAsBytes(<<IendChunk>>), 1, 19) \o <<0>>}

\* chunk_type_str and message arguments
ArgTypeStrs == {ruSt, RuSt, Ru1t}
ArgMessages == {<<>>, <<104>>}

\* the (chunk_type_str, message) pairs encode is run with: the critical type
\* with the empty message, the other type strings with a one-byte message
EncodeArgs ==
    {a \in ArgTypeStrs \X ArgMessages : (a[1] = RuSt) <=> (a[2] = <<>>)}

InitCmd ==
    /\ TypeIdle /\ ChunkIdle
    /\ png = <<>>
    /\ file \in InitFiles
    /\ last = [op |-> "none"]

\* mutant: the removed IEND chunk is appended before the new chunk
EncodeResult_EndBeforeNew(data, chunk_type_str, message) ==
    LET parsed == PngTryFrom(data) IN
    IF ~parsed.ok THEN Err(parsed.err)
    ELSE
    LET removed == PngRemoveChunk(parsed.val, IEND) IN
    IF ~removed.res.ok THEN Err(removed.res.err)
    ELSE
    LET end_chunk == removed.res.val
        chunk_type == ChunkTypeFromStr(chunk_type_str)
    IN
    IF ~chunk_type.ok THEN Err(chunk_type.err)
    ELSE
    LET new_chunk == ChunkNew(chunk_type.val, message)
        written == PngAppendChunk(PngAppendChunk(removed.png, end_chunk), new_chunk)
    IN  Ok([before |-> parsed.val, added |-> new_chunk, written |-> PngAsBytes(written)])

\* what encode computes from the input file and its arguments: the error it
\* returns, or the chunk it adds and the Png it writes
EncodeResult(data, chunk_type_str, message) ==
    LET parsed == PngTryFrom(data) IN
    IF ~parsed.ok THEN Err(parsed.err)
    ELSE
    LET removed == PngRemoveChunk(parsed.val, IEND) IN
    IF ~removed.res.ok THEN Err(removed.res.err)
    ELSE
    LET end_chunk == removed.res.val
        chunk_type == ChunkTypeFromStr(chunk_type_str)
    IN
    IF ~chunk_type.ok THEN Err(chunk_type.err)
    ELSE
    LET new_chunk == ChunkNew(chunk_type.val, message)
        written == PngAppendChunk(PngAppendChunk(removed.png, new_chunk), end_chunk)
    IN  Ok([before |-> parsed.val, added |-> new_chunk, written |-> PngAsBytes(written)])

\* output_file_path: None, Some(the input file's own path), Some(another path)
OutputPaths == {"none", "input", "other"}

\* the file fs::write is given is the input file
WritesInput(output) == output = "none" \/ output = "input"

\* commands::encode
Encode(chunk_type_str, message, output) ==
    \E r \in {EncodeResult(file, chunk_type_str, message)} :
    /\ r.ok => Len(r.val.before) < MaxFileChunks
    /\ last' = [op |-> "encode", chunk_type_str |-> chunk_type_str, message |-> message,
                output |-> output, input |-> file, res |-> r]
    /\ file' = IF r.ok /\ WritesInput(output) THEN r.val.written ELSE file
    /\ UNCHANGED <<png, typeVars, chunkVars>>

\* what remove computes: the error it returns, or the Png it writes
RemoveResult(data, chunk_type_str) ==
    LET parsed == PngTryFrom(data) IN
    IF ~parsed.ok THEN Err(parsed.err)
    ELSE
    LET removed == PngRemoveChunk(parsed.val, chunk_type_str) IN
    IF ~removed.res.ok THEN Err(removed.res.err)
    ELSE Ok([before |-> parsed.val, written |-> PngAsBytes(removed.png)])

\* commands::remove: always writes the input file
Remove(chunk_type_str) ==
    LET r == RemoveResult(file, chunk_type_str) IN
    /\ last' = [op |-> "remove", chunk_type_str |-> chunk_type_str, res |-> r]
    /\ file' = IF r.ok THEN r.val.written ELSE file
    /\ UNCHANGED <<png, typeVars, chunkVars>>

NextCmd ==
    \/ \E a \in EncodeArgs, output \in OutputPaths : Encode(a[1], a[2], output)
    \/ \E chunk_type_str \in ArgTypeStrs \cup {IEND} : Remove(chunk_type_str)

SpecCmd == InitCmd /\ [][NextCmd]_vars

\* C9: whenever encode succeeds, the chunk it adds is not critical: bit 5
\* of the first byte of its chunk type is set.
C9_EncodesAncillary ==
    (last.op = "encode" /\ last.res.ok) =>
        Bit5(last.res.val.added.chunk_type[1]) = 1

\* the index of the first chunk of type IEND in a chunk sequence that has one
FirstIend(chunks) ==
    CHOOSE k \in 1..Len(chunks) :
        /\ chunks[k].chunk_type = IEND
        /\ \A j \in 1..(k - 1) : chunks[j].chunk_type # IEND

\* the message chunk m for a type string and a message: the type's four
\* bytes, the message as data, the data's length, the CRC-32 of both
MessageChunk(chunk_type_str, message) ==
    [length     |-> <<Len(message) \div 65536, Len(message) % 65536>>,
     chunk_type |-> chunk_type_str,
     data       |-> message,
     crc        |-> Crc32(chunk_type_str \o message)]

\* C11: when encode succeeds on an input file holding chunks c1..cn whose
\* first IEND chunk is ck, the file it writes holds c1..c(k-1), c(k+1)..cn,
\* m, ck, with m the chunk of the given type and message: one chunk more, m
\* second-to-last, ck last, every other chunk in its order.  When ck was the
\* last chunk, the output ends with IEND and c1..c(n-1) are where they were.
\* The bytes go to the input file when no output path is given or the output
\* path is the input file's own, and leave it alone when the output path
\* names another file.
C11_EncodeOrder ==
    (last.op = "encode" /\ last.res.ok) =>
        LET input   == PngTryFrom(last.input)
            written == last.res.val.written
            output  == PngTryFrom(written)
        IN  /\ input.ok
            /\ \E i \in 1..Len(input.val) : input.val[i].chunk_type = IEND
            /\ output.ok
            /\ IsLayoutOf(written, output.val)
            /\ LET c == input.val
                   d == output.val
                   n == Len(c)
                   k == FirstIend(c)
                   m == MessageChunk(last.chunk_type_str, last.message)
               IN  /\ Len(d) = n + 1
                   /\ \A i \in 1..(k - 1) : d[i] = c[i]
                   /\ \A i \in (k + 1)..n : d[i - 1] = c[i]
                   /\ d[n] = m
                   /\ d[n + 1] = c[k]
                   /\ k = n => /\ d[n + 1].chunk_type = IEND
                               /\ SubSeq(d, 1, n - 1) = SubSeq(c, 1, n - 1)
            /\ IF last.output \in {"none", "input"} THEN file = written
               ELSE file = last.input

\* encode succeeded on the file of four different chunks with two IEND chunks,
\* the first of them second, and wrote the input file: the header and image
\* chunks and the IEND chunk with data now come first, in that order, then
\* the message chunk, then the IEND chunk that was second
C11_Witness ==
    /\ last.op = "encode" /\ last.res.ok /\ last.output = "none"
    /\ last.input = PngAsBytes(<<HeaderChunk, IendChunk, ImageChunk, IendWithData>>)
    /\ last.chunk_type_str = ruSt /\ last.message = <<104>>
    /\ PngTryFrom(file).ok
    /\ LET d == PngTryFrom(file).val
       IN  /\ Len(d) = 5
           /\ d[1].chunk_type = IHDR
           /\ d[2].chunk_type = IDAT
           /\ d[3].chunk_type = IEND /\ d[3].data = <<0>>
           /\ d[4].chunk_type = ruSt /\ d[4].data = <<104>>
           /\ d[5].chunk_type = IEND /\ d[5].data = <<>>

\* encode succeeded on a file of three chunks whose IEND chunk came last
C11_WitnessIendLast ==
    /\ last.op = "encode" /\ last.res.ok
    /\ last.input = PngAsBytes(<<HeaderChunk, ImageChunk, IendChunk>>)

\* encode succeeded on a file that earlier encodes had grown to four chunks
C11_WitnessGrown ==
    /\ last.op = "encode" /\ last.res.ok
    /\ Len(last.res.val.before) = 4
    /\ \E i \in 1..4 : last.res.val.before[i].chunk_type = RuSt
    /\ \E i \in 1..4 : last.res.val.before[i].chunk_type = ruSt

\* encode was given the input file's own path as output path: the input file
\* now holds one chunk more
C11_WitnessOwnPath ==
    /\ last.op = "encode" /\ last.res.ok /\ last.output = "input"
    /\ file = last.res.val.written
    /\ file # last.input
    /\ PngTryFrom(file).ok
    /\ Len(PngTryFrom(file).val) = Len(last.res.val.before) + 1

====
